---- MODULE Spec2Model ----
(***************************************************************************)
(* Crystal-tensor rotation of NumBAT Material objects                      *)
(* (backend/materials.py) and the gain spectrum of backend/plotting.py.    *)
(*                                                                         *)
(* Arithmetic.  The source computes in double precision.  The model        *)
(* computes exactly in the field Q(sqrt 2): a number is a record           *)
(* [a, b, d] standing for (a + b*sqrt(2)) / d, kept in lowest terms.       *)
(* Stiffness values are in GPa (166 stands for 166e9 Pa).                  *)
(* An angle theta is carried by its exact cosine and sine,                 *)
(* [c, s, d] standing for cos = c/d, sin = s/d with c, s in Z[sqrt 2];     *)
(* k*theta is the k-fold composition of the angle.                         *)
(***************************************************************************)
EXTENDS Integers, Sequences, FiniteSets, TLC

\* ------------------------------------------------------------------
\* Bounds of the model
\* ------------------------------------------------------------------
MaxCalls == 2
MaxDen == 400
MaxModes == 2

\* ------------------------------------------------------------------
\* Exact arithmetic
\* ------------------------------------------------------------------
Abs(x) == IF x < 0 THEN -x ELSE x

RECURSIVE GCD(_, _)
GCD(x, y) == IF y = 0 THEN x ELSE GCD(y, x % y)

LCM(x, y) == (x \div GCD(x, y)) * y

\* pairs <<a, b>> stand for a + b*sqrt(2)
PAdd(x, y) == <<x[1] + y[1], x[2] + y[2]>>
PMul(x, y) == <<x[1] * y[1] + 2 * x[2] * y[2], x[1] * y[2] + x[2] * y[1]>>
PNeg(x) == <<-x[1], -x[2]>>

Num(a, b, d) == [a |-> a, b |-> b, d |-> d]
Int2Num(k) == Num(k, 0, 1)
Zero == Int2Num(0)

Norm(x) ==
    LET g == GCD(GCD(Abs(x.a), Abs(x.b)), x.d)
    IN  Num(x.a \div g, x.b \div g, x.d \div g)

IsZero(x) == x.a = 0 /\ x.b = 0

\* x + y and x * y, unreduced (denominators are brought to their lcm)
RAdd(x, y) ==
    IF IsZero(y) THEN x
    ELSE IF IsZero(x) THEN y
    ELSE IF x.d = y.d THEN Num(x.a + y.a, x.b + y.b, x.d)
    ELSE LET m == LCM(x.d, y.d)
             kx == m \div x.d
             ky == m \div y.d
         IN  Num(kx * x.a + ky * y.a, kx * x.b + ky * y.b, m)
RMul(x, y) ==
    IF IsZero(x) \/ IsZero(y) THEN Zero
    ELSE Num(x.a * y.a + 2 * x.b * y.b, x.a * y.b + x.b * y.a, x.d * y.d)

NAdd(x, y) == Norm(RAdd(x, y))
NMul(x, y) == Norm(RMul(x, y))
NNeg(x) == Num(-x.a, -x.b, x.d)
NSub(x, y) == NAdd(x, NNeg(y))
\* x / y for a rational y other than 0
NDiv(x, y) ==
    LET sg == IF y.a < 0 THEN -1 ELSE 1
    IN  Norm(Num(sg * x.a * y.d, sg * x.b * y.d, x.d * Abs(y.a)))

\* ------------------------------------------------------------------
\* Angles
\* ------------------------------------------------------------------
Angle(c, s, d) == [c |-> c, s |-> s, d |-> d]
AngleSum(x, y) ==
    LET c == PAdd(PMul(x.c, y.c), PNeg(PMul(x.s, y.s)))
        s == PAdd(PMul(x.s, y.c), PMul(x.c, y.s))
        g == GCD(GCD(GCD(Abs(c[1]), Abs(c[2])), GCD(Abs(s[1]), Abs(s[2]))),
                 x.d * y.d)
    IN  Angle(<<c[1] \div g, c[2] \div g>>, <<s[1] \div g, s[2] \div g>>,
              (x.d * y.d) \div g)
AngleNeg(x) == Angle(x.c, PNeg(x.s), x.d)
Times2(x) == AngleSum(x, x)
Times4(x) == Times2(Times2(x))

np_cos(theta) == Norm(Num(theta.c[1], theta.c[2], theta.d))
np_sin(theta) == Norm(Num(theta.s[1], theta.s[2], theta.d))

Theta0 == Angle(<<1, 0>>, <<0, 0>>, 1)
PiOver4 == Angle(<<0, 1>>, <<0, 1>>, 2)
ThetaA == Angle(<<1, 0>>, <<0, 2>>, 3)
PiOver2 == Angle(<<0, 0>>, <<1, 0>>, 1)
\* the angles the calls are made with: 0, pi/4, acos(1/3) and -acos(1/3)
Angles == {Theta0, PiOver4, ThetaA, AngleNeg(ThetaA)}

\* ------------------------------------------------------------------
\* Voigt mapping and rotation kernel
\* ------------------------------------------------------------------
Idx3 == 0 .. 2
Idx6 == 0 .. 5

\* arrays are tuples of rows; At reads them with the 0-based indices of the
\* source
At(M, i, j) == M[i + 1][j + 1]

\* to_Voigt with the indices of the pairs (1,2) and (0,1) exchanged
to_Voigt_yz5 == <<<<0, 3, 4>>, <<3, 1, 5>>, <<4, 5, 2>>>>

to_Voigt == <<<<0, 5, 4>>, <<5, 1, 3>>, <<4, 3, 2>>>>

Sum3(F(_)) == RAdd(RAdd(RAdd(Zero, F(0)), F(1)), F(2))

\* rotation_matrix_sum with mat_R[l,s] in place of mat_R[l,t]
rotation_matrix_sum_ls(i, j, k, l, tensor_orig, mat_R) ==
    Sum3(LAMBDA q : IF IsZero(At(mat_R, i, q)) THEN Zero ELSE
    Sum3(LAMBDA r : IF IsZero(At(mat_R, j, r)) THEN Zero ELSE
    Sum3(LAMBDA s : IF IsZero(At(mat_R, k, s)) THEN Zero ELSE
    Sum3(LAMBDA t :
        RMul(RMul(RMul(RMul(At(mat_R, i, q), At(mat_R, j, r)),
                       At(mat_R, k, s)), At(mat_R, l, s)),
             At(tensor_orig, At(to_Voigt, q, r), At(to_Voigt, s, t)))))))

\* tensor_prime_comp after the loops over q, r, s, t.  The summand is the
\* source's product; a term whose factor mat_R[i,q], mat_R[j,r] or mat_R[k,s]
\* is 0 adds 0 to the sum and is passed over without forming the product.
rotation_matrix_sum(i, j, k, l, tensor_orig, mat_R) ==
    Sum3(LAMBDA q : IF IsZero(At(mat_R, i, q)) THEN Zero ELSE
    Sum3(LAMBDA r : IF IsZero(At(mat_R, j, r)) THEN Zero ELSE
    Sum3(LAMBDA s : IF IsZero(At(mat_R, k, s)) THEN Zero ELSE
    Sum3(LAMBDA t :
        RMul(RMul(RMul(RMul(At(mat_R, i, q), At(mat_R, j, r)),
                       At(mat_R, k, s)), At(mat_R, l, t)),
             At(tensor_orig, At(to_Voigt, q, r), At(to_Voigt, s, t)))))))

\* the names Python raises
UnboundLocalError == "UnboundLocalError"
NotImplementedError == "NotImplementedError"
\* a local variable holds no value (<<>>) or one value (<<v>>)
Unbound == <<>>
Bound(v) == <<v>>

ValidAxes == {"x-axis", "y-axis", "z-axis"}
AxisLabels == ValidAxes \cup {"w-axis"}

One == Int2Num(1)

\* mat_R_of with the transposed (left-handed) matrix in the y-axis branch
mat_R_of_yT(theta, rotation_axis) ==
    LET co == np_cos(theta)
        si == np_sin(theta)
        m0 == Unbound
        m1 == IF rotation_axis = "x-axis"
              THEN Bound(<<<<One, Zero, Zero>>, <<Zero, co, NNeg(si)>>,
                              <<Zero, si, co>>>>)
              ELSE m0
        m2 == IF rotation_axis = "y-axis"
              THEN Bound(<<<<co, Zero, NNeg(si)>>, <<Zero, One, Zero>>,
                              <<si, Zero, co>>>>)
              ELSE m1
        m3 == IF rotation_axis = "z-axis"
              THEN Bound(<<<<co, NNeg(si), Zero>>, <<si, co, Zero>>,
                              <<Zero, Zero, One>>>>)
              ELSE m2
    IN  m3

\* the value of mat_R when the loop starts: three independent if statements
mat_R_of(theta, rotation_axis) ==
    LET co == np_cos(theta)
        si == np_sin(theta)
        m0 == Unbound
        m1 == IF rotation_axis = "x-axis"
              THEN Bound(<<<<One, Zero, Zero>>, <<Zero, co, NNeg(si)>>,
                              <<Zero, si, co>>>>)
              ELSE m0
        m2 == IF rotation_axis = "y-axis"
              THEN Bound(<<<<co, Zero, si>>, <<Zero, One, Zero>>,
                              <<NNeg(si), Zero, co>>>>)
              ELSE m1
        m3 == IF rotation_axis = "z-axis"
              THEN Bound(<<<<co, NNeg(si), Zero>>, <<si, co, Zero>>,
                              <<Zero, Zero, One>>>>)
              ELSE m2
    IN  m3

np_zeros66 == [I \in 1 .. 6 |-> [J \in 1 .. 6 |-> Zero]]

\* The four nested loops of rotate_tensor run 81 iterations; iteration n has
\* (i, j, k, l) = the four base-3 digits of n and assigns
\* tensor_prime[V1, V2].  An entry ends as the value assigned by the last
\* iteration that writes it, and stays at np.zeros' 0 if none does.
LoopI(n) == n \div 27
LoopJ(n) == (n \div 9) % 3
LoopK(n) == (n \div 3) % 3
LoopL(n) == n % 3
Writes(V1, V2) ==
    {n \in 0 .. 80 : At(to_Voigt, LoopI(n), LoopJ(n)) = V1
                     /\ At(to_Voigt, LoopK(n), LoopL(n)) = V2}
LastWrite(V1, V2) ==
    CHOOSE n \in Writes(V1, V2) : \A m \in Writes(V1, V2) : m <= n

rotate_loop(tensor_orig, mat_R) ==
    [I \in 1 .. 6 |-> [J \in 1 .. 6 |->
        IF Writes(I - 1, J - 1) = {} THEN At(np_zeros66, I - 1, J - 1)
        ELSE LET n == LastWrite(I - 1, J - 1)
             IN  Norm(rotation_matrix_sum(LoopI(n), LoopJ(n), LoopK(n),
                                          LoopL(n), tensor_orig, mat_R))]]

\* what a call gives back: a returned value, or a raised exception
NoException == "None"
Return(v) == [raised |-> NoException, value |-> <<v>>]
Raise(e) == [raised |-> e, value |-> <<>>]

\* rotate_tensor: the first read of a mat_R that no branch bound raises
\* UnboundLocalError (line 413, inside the first iteration)
rotate_tensor(tensor_orig, theta, rotation_axis) ==
    LET mat_R == mat_R_of(theta, rotation_axis)
    IN  IF mat_R = Unbound THEN Raise(UnboundLocalError)
        ELSE Return(rotate_loop(tensor_orig, mat_R[1]))

\* ------------------------------------------------------------------
\* Material parameter files (material_data/*.json) and load_data_file
\* ------------------------------------------------------------------
Kinds == {"c", "p", "eta"}
Comp == (1 .. 6) \X (1 .. 6)

\* the cubic pattern the rotation writes for (11, 12, 44) = (a, b, d)
Cubic(a, b, d) ==
    <<<<a, b, b, Zero, Zero, Zero>>,
      <<b, a, b, Zero, Zero, Zero>>,
      <<b, b, a, Zero, Zero, Zero>>,
      <<Zero, Zero, Zero, d, Zero, Zero>>,
      <<Zero, Zero, Zero, Zero, d, Zero>>,
      <<Zero, Zero, Zero, Zero, Zero, d>>>>

IsoKeys == {<<1, 1>>, <<1, 2>>, <<4, 4>>}

\* a parameter file: metadata, n, s, and for each kind the values of the
\* keys k_IJ it holds (keys: the components listed in has)
IsoParams(name, n, s, c, p, eta) ==
    [file_name |-> name, n |-> n, s |-> s,
     has |-> [k \in Kinds |-> IsoKeys],
     val |-> [k \in Kinds |->
                LET v == IF k = "c" THEN c ELSE IF k = "p" THEN p ELSE eta
                IN  Cubic(Int2Num(v[1]), Int2Num(v[2]), Int2Num(v[3]))]]

FullParams(name, n, s, c, p, eta) ==
    [IsoParams(name, n, s, c, p, eta) EXCEPT !.has = [k \in Kinds |-> Comp]]

\* a file that holds every key but the ones in missing[k] (never one of the
\* mandatory keys of lines 60-68)
PartialParams(name, n, s, c, p, eta, missing) ==
    [IsoParams(name, n, s, c, p, eta) EXCEPT
        !.has = [k \in Kinds |-> Comp \ (missing[k] \ IsoKeys)]]

Si_2016_Smith ==
    IsoParams("Si_2016_Smith", 348, 2329, <<166, 64, 80>>, <<90, 17, -51>>,
              <<59, 52, 6>>)
SiO2_2016_Smith ==
    IsoParams("SiO2_2016_Smith", 145, 2200, <<78, 16, 31>>, <<12, 28, -8>>,
              <<16, 12, 3>>)
Si_test_anisotropic ==
    FullParams("Si_test_anisotropic", 348, 2329, <<166, 64, 80>>,
               <<90, 17, -51>>, <<59, 52, 6>>)

\* parameter files one key short of the full set: the last key the try
\* block reads (eta_66), and an early one (c_13)
Si_no_eta_66 ==
    PartialParams("Si_no_eta_66", 348, 2329, <<166, 64, 80>>,
                  <<90, 17, -51>>, <<59, 52, 6>>,
                  [k \in Kinds |-> IF k = "eta" THEN {<<6, 6>>} ELSE {}])
SiO2_no_c_13 ==
    PartialParams("SiO2_no_c_13", 145, 2200, <<78, 16, 31>>, <<12, 28, -8>>,
                  <<16, 12, 3>>,
                  [k \in Kinds |-> IF k = "c" THEN {<<1, 3>>} ELSE {}])

DataFiles ==
    {Si_2016_Smith, SiO2_2016_Smith, Si_test_anisotropic, Si_no_eta_66,
     SiO2_no_c_13}

\* the order in which the try block reads the 108 keys
KindOrder == <<"c", "p", "eta">>
KeyOrder ==
    [n \in 1 .. 108 |->
        <<KindOrder[((n - 1) \div 36) + 1],
          (((n - 1) % 36) \div 6) + 1,
          ((n - 1) % 6) + 1>>]
HasKey(params, key) == <<key[2], key[3]>> \in params.has[key[1]]
\* TryPrefix reading the 36 c keys only
TryPrefix_c(params) ==
    IF \A n \in 1 .. 36 : HasKey(params, KeyOrder[n]) THEN 108
    ELSE (CHOOSE n \in 1 .. 36 :
             /\ ~HasKey(params, KeyOrder[n])
             /\ \A m \in 1 .. (n - 1) : HasKey(params, KeyOrder[m])) - 1

\* number of assignments of the try block made before the first KeyError
TryPrefix(params) ==
    IF \A n \in 1 .. 108 : HasKey(params, KeyOrder[n]) THEN 108
    ELSE (CHOOSE n \in 1 .. 108 :
             /\ ~HasKey(params, KeyOrder[n])
             /\ \A m \in 1 .. (n - 1) : HasKey(params, KeyOrder[m])) - 1

\* the attributes of the object after load_data_file
load_data_file(params) ==
    LET tried == {KeyOrder[n] : n \in 1 .. TryPrefix(params)}
        set(k) == IsoKeys \cup {<<key[2], key[3]>> : key \in {t \in tried : t[1] = k}}
        tensor(k) == [I \in 1 .. 6 |-> [J \in 1 .. 6 |->
                        IF <<I, J>> \in set(k) THEN params.val[k][I][J]
                        ELSE Zero]]
    IN  [file_name |-> params.file_name, n |-> params.n, s |-> params.s,
         c |-> tensor("c"), p |-> tensor("p"), eta |-> tensor("eta"),
         attrs |-> [k \in Kinds |-> set(k)],
         anisotropic |-> (TryPrefix(params) = 108)]

\* ------------------------------------------------------------------
\* State
\* ------------------------------------------------------------------
VARIABLES
    file_name, n, s,    \* metadata, refractive index, density
    c, p, eta,          \* c[I][J] is the attribute c_IJ (likewise p, eta)
    attrs,              \* attrs[k]: the components <<I, J>> of kind k that
                        \* exist as attributes of the object
    anisotropic,        \* the flag set by load_data_file
    raised,             \* "new": no call yet; else the outcome of the last
                        \* call of rotate_axis: "None" or the exception
    call,               \* arguments of the last call
    old,                \* c, p, eta, attrs as they were before the last call
    kernel,             \* the calls of rotate_tensor made by the last call
    printed,            \* what the last call printed
    ncalls,             \* number of calls of rotate_axis made so far
    returned,           \* what the last call of rotate_axis returned
    kin, kout,          \* kernel run on its own: input and result
    looked,             \* the last lookup to_Voigt[i, j]: <<i, j, index>>
    gs                  \* a call of plotting.gain_specta: its arguments,
                        \* locals, figures, files and position

vars == <<file_name, n, s, c, p, eta, attrs, anisotropic, raised, call, old,
          kernel, printed, ncalls, returned, kin, kout, looked, gs>>

fields == <<file_name, n, s, c, p, eta, attrs, anisotropic>>
history == <<raised, call, old, kernel, printed, ncalls, returned>>

NoCall == [theta |-> Theta0, axis |-> "none"]
NoKernel == [tensor |-> np_zeros66, mat_R |-> <<>>]
NoGain == [pc |-> "none"]

Snapshot == [c |-> c, p |-> p, eta |-> eta, attrs |-> attrs]

\* Material(data_file): __init__ calls load_data_file
Init ==
    /\ \E params \in DataFiles :
         LET m == load_data_file(params)
         IN  /\ file_name = m.file_name
             /\ n = m.n
             /\ s = m.s
             /\ c = m.c
             /\ p = m.p
             /\ eta = m.eta
             /\ attrs = m.attrs
             /\ anisotropic = m.anisotropic
    /\ raised = "new"
    /\ call = NoCall
    /\ old = Snapshot
    /\ kernel = <<>>
    /\ printed = <<>>
    /\ ncalls = 0
    /\ returned = "new"
    /\ kin = NoKernel
    /\ kout = <<>>
    /\ looked = <<>>
    /\ gs = NoGain

\* ------------------------------------------------------------------
\* Material.rotate_axis
\* ------------------------------------------------------------------
Quarter == Num(1, 0, 4)
Two == Int2Num(2)
Three == Int2Num(3)

\* np.cos(4*theta), np.sin(4*theta)
cos4(theta) == np_cos(Times4(theta))
sin4(theta) == np_sin(Times4(theta))

\* line 238 with 3 - cos in place of 3 + cos
manual_c_11_minus(old_c_11, old_c_12, old_c_44, theta) ==
    NMul(Quarter,
         NAdd(NMul(old_c_11, NSub(Three, cos4(theta))),
              NMul(NAdd(old_c_12, NMul(Two, old_c_44)),
                   NSub(One, cos4(theta)))))

\* line 238
manual_c_11(old_c_11, old_c_12, old_c_44, theta) ==
    NMul(Quarter,
         NAdd(NMul(old_c_11, NAdd(Three, cos4(theta))),
              NMul(NAdd(old_c_12, NMul(Two, old_c_44)),
                   NSub(One, cos4(theta)))))

\* line 240 with old_c_11 + 2*old_c_44 in place of old_c_11 - 2*old_c_44
manual_c_12_plus(old_c_11, old_c_12, old_c_44, theta) ==
    NMul(Quarter,
         NAdd(NMul(old_c_12, NAdd(Three, cos4(theta))),
              NMul(NAdd(old_c_11, NMul(Two, old_c_44)),
                   NSub(One, cos4(theta)))))

\* line 240
manual_c_12(old_c_11, old_c_12, old_c_44, theta) ==
    NMul(Quarter,
         NAdd(NMul(old_c_12, NAdd(Three, cos4(theta))),
              NMul(NSub(old_c_11, NMul(Two, old_c_44)),
                   NSub(One, cos4(theta)))))

\* line 243
manual_c_66(old_c_11, old_c_12, old_c_44, theta) ==
    NMul(Quarter,
         NAdd(NMul(NMul(Two, old_c_44), NAdd(One, cos4(theta))),
              NMul(NSub(old_c_11, old_c_12), NSub(One, cos4(theta)))))

\* line 244
manual_c_16(old_c_11, old_c_12, old_c_44, theta) ==
    NMul(NMul(Quarter, sin4(theta)),
         NSub(NAdd(NMul(Two, old_c_44), old_c_12), old_c_11))

\* line 245
manual_c_26(old_c_11, old_c_12, old_c_44, theta) ==
    NMul(NMul(Quarter, sin4(theta)),
         NSub(NSub(old_c_11, old_c_12), NMul(Two, old_c_44)))

\* lines 238-245: the values assigned after the kernel result was stored
ManualRotated(tensor, old_c_11, old_c_12, old_c_44, theta) ==
    LET c_11 == manual_c_11(old_c_11, old_c_12, old_c_44, theta)
        c_12 == manual_c_12(old_c_11, old_c_12, old_c_44, theta)
        c_66 == manual_c_66(old_c_11, old_c_12, old_c_44, theta)
        c_16 == manual_c_16(old_c_11, old_c_12, old_c_44, theta)
        c_26 == manual_c_26(old_c_11, old_c_12, old_c_44, theta)
    IN  [tensor EXCEPT
            ![1][1] = c_11, ![2][2] = c_11,
            ![3][3] = old_c_11,
            ![1][2] = c_12, ![2][1] = c_12,
            ![1][3] = old_c_12, ![2][3] = old_c_12,
            ![3][1] = old_c_12, ![3][2] = old_c_12,
            ![4][4] = old_c_44, ![5][5] = old_c_44,
            ![6][6] = c_66,
            ![1][6] = c_16, ![6][1] = c_16,
            ![2][6] = c_26, ![6][2] = c_26]

\* Expand without the assignments of lines 202-218: the attributes are
\* collected as they stand
Expand_asis(k) == k

\* lines 202-226 (299-323, 343-367): the attributes are set to the cubic
\* pattern of the current k_11, k_12, k_44 and collected into the 6x6 array
Expand(k) == Cubic(k[1][1], k[1][2], k[4][4])

\* rotate_axis has no return statement: the call evaluates to None when
\* the body runs to its end (line 376), and to nothing when it raises
PyNone == "None"
NoValue == "raised"

KernelCall(tensor, theta, axis, r) ==
    [tensor_orig |-> tensor, theta |-> theta, rotation_axis |-> axis,
     raised |-> r.raised, value |-> r.value]

\* lines 197-376, the branch taken when the flag is False: the fields,
\* exception, kernel calls and output it ends with
rotate_isotropic(theta, axis) ==
        LET old_c_11 == c[1][1]
            old_c_12 == c[1][2]
            old_c_44 == c[4][4]
            c_orig == Expand(c)
            c_call == rotate_tensor(c_orig, theta, axis)
            c_log == <<KernelCall(c_orig, theta, axis, c_call)>>
        IN  IF c_call.raised # NoException
            THEN [c |-> c_orig, p |-> p, eta |-> eta,
                  attrs |-> [attrs EXCEPT !["c"] = Comp],
                  raised |-> c_call.raised, kernel |-> c_log,
                  printed |-> <<>>, returned |-> NoValue]
            ELSE
        LET c_rotated == c_call.value[1]
            c_manual == ManualRotated(c_rotated, old_c_11, old_c_12,
                                      old_c_44, theta)
            out == << <<"original", c_orig>>,
                      <<"matrix rotated", c_rotated>>,
                      <<"manual rotated", c_manual>> >>
            p_orig == Expand(p)
            p_call == rotate_tensor(p_orig, theta, axis)
            p_log == Append(c_log, KernelCall(p_orig, theta, axis, p_call))
        IN  IF p_call.raised # NoException
            THEN [c |-> c_manual, p |-> p_orig, eta |-> eta,
                  attrs |-> [attrs EXCEPT !["c"] = Comp, !["p"] = Comp],
                  raised |-> p_call.raised, kernel |-> p_log,
                  printed |-> out, returned |-> NoValue]
            ELSE
        LET eta_orig == Expand(eta)
            eta_call == rotate_tensor(eta_orig, theta, axis)
            eta_log == Append(p_log,
                              KernelCall(eta_orig, theta, axis, eta_call))
        IN  IF eta_call.raised # NoException
            THEN [c |-> c_manual, p |-> p_call.value[1], eta |-> eta_orig,
                  attrs |-> [k \in Kinds |-> Comp],
                  raised |-> eta_call.raised, kernel |-> eta_log,
                  printed |-> out, returned |-> NoValue]
            ELSE [c |-> c_manual, p |-> p_call.value[1],
                  eta |-> eta_call.value[1],
                  attrs |-> [k \in Kinds |-> Comp],
                  raised |-> NoException, kernel |-> eta_log,
                  printed |-> out, returned |-> PyNone]

\* lines 378-379
rotate_anisotropic ==
    [c |-> c, p |-> p, eta |-> eta, attrs |-> attrs,
     raised |-> NotImplementedError, kernel |-> <<>>, printed |-> <<>>,
     returned |-> NoValue]

\* rotate_axis without the test of the flag
rotate_axis_body_noflag(theta, axis) == rotate_isotropic(theta, axis)

\* the body of rotate_axis
rotate_axis_body(theta, axis) ==
    IF anisotropic = FALSE THEN rotate_isotropic(theta, axis)
    ELSE rotate_anisotropic

\* the least common denominator of the nine parameters the next call expands
RECURSIVE LCMSeq(_)
LCMSeq(q) == IF q = <<>> THEN 1 ELSE LCM(Head(q).d, LCMSeq(Tail(q)))
ParamDen ==
    LCMSeq(<<c[1][1], c[1][2], c[4][4], p[1][1], p[1][2], p[4][4],
             eta[1][1], eta[1][2], eta[4][4]>>)
Fits(theta) == 4 * ParamDen * theta.d * theta.d * theta.d * theta.d <= MaxDen

\* rotate_axis with the assignment self.anisotropic = True of line 376 in
\* force
rotate_axis_sets_flag(theta, axis) ==
    /\ raised \in {"new", NoException}
    /\ ncalls < MaxCalls
    /\ Fits(theta)
    /\ \E r \in {rotate_axis_body(theta, axis)} :
           /\ c' = r.c
           /\ p' = r.p
           /\ eta' = r.eta
           /\ attrs' = r.attrs
           /\ raised' = r.raised
           /\ kernel' = r.kernel
           /\ printed' = r.printed
           /\ returned' = r.returned
           /\ anisotropic' = (IF r.raised = NoException THEN TRUE
                              ELSE anisotropic)
    /\ call' = [theta |-> theta, axis |-> axis]
    /\ old' = Snapshot
    /\ ncalls' = ncalls + 1
    /\ UNCHANGED <<file_name, n, s, kin, kout, looked, gs>>

\* a call self.rotate_axis(theta, axis) by the script that holds the object;
\* an exception that leaves rotate_axis ends the script
rotate_axis(theta, axis) ==
    /\ raised \in {"new", NoException}
    /\ ncalls < MaxCalls
    /\ Fits(theta)
    /\ \E r \in {rotate_axis_body(theta, axis)} :
           /\ c' = r.c
           /\ p' = r.p
           /\ eta' = r.eta
           /\ attrs' = r.attrs
           /\ raised' = r.raised
           /\ kernel' = r.kernel
           /\ printed' = r.printed
           /\ returned' = r.returned
    /\ call' = [theta |-> theta, axis |-> axis]
    /\ old' = Snapshot
    /\ ncalls' = ncalls + 1
    /\ UNCHANGED <<file_name, n, s, anisotropic, kin, kout, looked, gs>>

Next == \E theta \in Angles, axis \in AxisLabels : rotate_axis(theta, axis)

Spec == Init /\ [][Next]_vars

\* ------------------------------------------------------------------
\* A script that rotates a Material and rotates it back:
\* m.rotate_axis(theta, axis); m.rotate_axis(-theta, axis)
\* ------------------------------------------------------------------
\* 0, pi/4, -pi/4, acos(1/3), -acos(1/3)
RoundTripAngles == Angles \cup {AngleNeg(PiOver4)}

\* a call of the script: the first with any angle and axis, the second
\* with the opposite angle about the same axis
round_trip_call(theta, axis) ==
    /\ ncalls < 2
    /\ ncalls = 1 => (theta = AngleNeg(call.theta) /\ axis = call.axis)
    /\ rotate_axis(theta, axis)

NextRoundTrip ==
    \E theta \in RoundTripAngles, axis \in AxisLabels :
        round_trip_call(theta, axis)

SpecRoundTrip == Init /\ [][NextRoundTrip]_vars

\* ------------------------------------------------------------------
\* The kernel on its own: rotate_tensor's loops on a given tensor and mat_R
\* ------------------------------------------------------------------
IntMatrix(rows) ==
    [I \in 1 .. Len(rows) |-> [J \in 1 .. Len(rows[I]) |->
        Int2Num(rows[I][J])]]

\* isotropic_stiffness with c_44 = c_11 - c_12 (the division by 2 left out)
isotropic_stiffness_no_half(E, v) ==
    LET den == NMul(NAdd(One, v), NSub(One, NMul(Two, v)))
        c_11 == NDiv(NMul(E, NSub(One, v)), den)
        c_12 == NDiv(NMul(E, v), den)
        c_44 == NDiv(NMul(E, NSub(One, NMul(Two, v))), den)
    IN  <<c_11, c_12, c_44>>

\* lines 428-433
isotropic_stiffness(E, v) ==
    LET den == NMul(NAdd(One, v), NSub(One, NMul(Two, v)))
        c_11 == NDiv(NMul(E, NSub(One, v)), den)
        c_12 == NDiv(NMul(E, v), den)
        c_44 == NDiv(NDiv(NMul(E, NSub(One, NMul(Two, v))), den), Two)
    IN  <<c_11, c_12, c_44>>

\* Young's moduli (GPa) and Poisson ratios the function is called with
YoungsModuli == {Int2Num(10), Int2Num(73)}
PoissonRatios == {Num(1, 0, 4), Num(1, 0, 3)}
\* the expansions of the parameter sets isotropic_stiffness returns
IsotropicInputs ==
    { LET k == isotropic_stiffness(E, v) IN Cubic(k[1], k[2], k[3]) :
        E \in YoungsModuli, v \in PoissonRatios }

TensorInputs ==
    IsotropicInputs \cup
    { Expand(Si_2016_Smith.val["c"]),
      Expand(SiO2_2016_Smith.val["p"]),
      \* neither symmetric nor cubic
      [I \in 1 .. 6 |-> [J \in 1 .. 6 |-> Int2Num(6 * (I - 1) + J)]],
      [I \in 1 .. 6 |-> [J \in 1 .. 6 |-> Int2Num((I * I) - (2 * J))]],
      [I \in 1 .. 6 |-> [J \in 1 .. 6 |-> Int2Num(IF I = J THEN 1 ELSE 0)]] }

MatrixInputs ==
    { mat_R_of(theta, axis)[1] : theta \in Angles, axis \in ValidAxes }
    \cup { IntMatrix(<<<<1, 2, 3>>, <<4, 5, 6>>, <<7, 8, 9>>>>),
           IntMatrix(<<<<0, 1, -1>>, <<2, 0, 1>>, <<1, 1, 0>>>>),
           IntMatrix(<<<<1, 0, 0>>, <<0, 1, 0>>, <<0, 0, 1>>>>),
           IntMatrix(<<<<2, -1, 0>>, <<0, 0, 3>>, <<1, 1, 1>>>>),
           IntMatrix(<<<<0, 0, 1>>, <<1, 0, 0>>, <<0, 1, 0>>>>),
           IntMatrix(<<<<1, 1, 1>>, <<1, 1, 1>>, <<1, 1, 1>>>>) }

InitKernel ==
    /\ LET m == load_data_file(Si_2016_Smith)
       IN  /\ file_name = m.file_name
           /\ n = m.n
           /\ s = m.s
           /\ c = m.c
           /\ p = m.p
           /\ eta = m.eta
           /\ attrs = m.attrs
           /\ anisotropic = m.anisotropic
    /\ raised = "new"
    /\ call = NoCall
    /\ old = Snapshot
    /\ kernel = <<>>
    /\ printed = <<>>
    /\ ncalls = 0
    /\ returned = "new"
    /\ \E T \in TensorInputs, R \in MatrixInputs :
          kin = [tensor |-> T, mat_R |-> <<R>>]
    /\ kout = <<>>
    /\ looked = <<>>
    /\ gs = NoGain

\* lines 406-415 run on kin
run_kernel ==
    /\ kout = <<>>
    /\ kin.mat_R # <<>>
    /\ kout' = <<rotate_loop(kin.tensor, kin.mat_R[1])>>
    /\ UNCHANGED <<fields, history, kin, looked, gs>>

NextKernel == run_kernel

SpecKernel == InitKernel /\ [][NextKernel]_vars

\* ------------------------------------------------------------------
\* rotate_tensor on its own: a call rotate_tensor(tensor, theta, axis)
\* ------------------------------------------------------------------
\* 0, pi/4, acos(1/3), -acos(1/3), pi/2, pi, -pi/2
RotateAngles ==
    Angles \cup {PiOver2, Times2(PiOver2), AngleNeg(PiOver2)}

InitRotate ==
    /\ LET m == load_data_file(Si_2016_Smith)
       IN  /\ file_name = m.file_name
           /\ n = m.n
           /\ s = m.s
           /\ c = m.c
           /\ p = m.p
           /\ eta = m.eta
           /\ attrs = m.attrs
           /\ anisotropic = m.anisotropic
    /\ raised = "new"
    /\ call = NoCall
    /\ old = Snapshot
    /\ kernel = <<>>
    /\ printed = <<>>
    /\ ncalls = 0
    /\ returned = "new"
    /\ \E T \in TensorInputs, theta \in RotateAngles, axis \in AxisLabels :
          kin = [tensor_orig |-> T, theta |-> theta, rotation_axis |-> axis]
    /\ kout = <<>>
    /\ looked = <<>>
    /\ gs = NoGain

\* lines 398-415 run on kin; mat_R is the local variable as the loop finds it
run_rotate_tensor ==
    /\ kout = <<>>
    /\ \E r \in {rotate_tensor(kin.tensor_orig, kin.theta, kin.rotation_axis)} :
          kout' = <<[raised |-> r.raised, value |-> r.value,
                     mat_R |-> mat_R_of(kin.theta, kin.rotation_axis)]>>
    /\ UNCHANGED <<fields, history, kin, looked, gs>>

\* the subscription to_Voigt[i,j] of line 413
index_Voigt(i, j) ==
    /\ kout # <<>>
    /\ looked' = <<i, j, At(to_Voigt, i, j)>>
    /\ UNCHANGED <<fields, history, kin, kout, gs>>

NextRotate ==
    \/ run_rotate_tensor
    \/ \E i \in Idx3, j \in Idx3 : index_Voigt(i, j)

SpecRotate == InitRotate /\ [][NextRotate]_vars

\* ------------------------------------------------------------------
\* plotting.gain_specta
\* ------------------------------------------------------------------
\* the number of points of interp_grid
num_interp_pts == 2

\* np.zeros(num_interp_pts), and += on arrays over the grid
np_zeros == [x \in 1 .. num_interp_pts |-> 0]
VecAdd(u, v) == [x \in 1 .. num_interp_pts |-> u[x] + v[x]]
\* 10*np.log10(np.exp(abs(v)*6.5e-3)), in units of 0.065*log10(e) dB
dB(v) == [x \in 1 .. num_interp_pts |-> Abs(v[x])]

\* an acoustic mode, given by what np.interp(interp_grid, freq_list_GHz,
\* gain_list) yields for its total, photoelastic and moving-boundary
\* Lorentzian (lines 112-122, 186-199): gain * x at grid point x
Mode(g, g_PE, g_MB) ==
    [tot |-> [x \in 1 .. num_interp_pts |-> g * x],
     PE |-> [x \in 1 .. num_interp_pts |-> g_PE * x],
     MB |-> [x \in 1 .. num_interp_pts |-> g_MB * x]]
GainModes == {Mode(3, 2, 1), Mode(-2, -1, -1), Mode(0, 0, 0)}
\* the modes of a simulation: len(alpha) is at most MaxModes
ModeLists == UNION {[1 .. k -> GainModes] : k \in 0 .. MaxModes}

\* for AC_i in range(len(alpha)): ...; acc += interp_spectrum
RECURSIVE accumulate(_, _, _)
accumulate(acc, modes, which) ==
    IF modes = <<>> THEN acc
    ELSE accumulate(VecAdd(acc, Head(modes)[which]), Tail(modes), which)

\* the loop under its test AC_ival == 'All'
loop_if_All(acc, which) ==
    IF gs.AC_ival = "All" THEN accumulate(acc, gs.modes, which) ELSE acc

\* np.savetxt(name, (interp_grid, data)) when save_txt is set
savetxt(name, data) ==
    IF gs.save_txt THEN {[name |-> name, data |-> data]} ELSE {}

InitGain ==
    /\ LET m == load_data_file(Si_2016_Smith)
       IN  /\ file_name = m.file_name
           /\ n = m.n
           /\ s = m.s
           /\ c = m.c
           /\ p = m.p
           /\ eta = m.eta
           /\ attrs = m.attrs
           /\ anisotropic = m.anisotropic
    /\ raised = "new"
    /\ call = NoCall
    /\ old = Snapshot
    /\ kernel = <<>>
    /\ printed = <<>>
    /\ ncalls = 0
    /\ returned = "new"
    /\ kin = NoKernel
    /\ kout = <<>>
    /\ looked = <<>>
    /\ \E modes \in ModeLists, AC_ival \in {"All", "0"}, save_txt \in BOOLEAN :
          gs = [pc |-> "start", modes |-> modes, AC_ival |-> AC_ival,
                save_txt |-> save_txt,
                interp_values |-> np_zeros, interp_values_PE |-> np_zeros,
                interp_values_MB |-> np_zeros,
                figures |-> <<>>, files |-> {}, ret |-> <<>>]

\* lines 105-141: interp_values = np.zeros(...), the first pass over the
\* modes and the figure gain_spectra-mode_comps
gain_figure_1 ==
    /\ gs.pc = "start"
    /\ \E iv \in {loop_if_All(np_zeros, "tot")} :
          gs' = [gs EXCEPT
                   !.pc = "fig1",
                   !.interp_values = iv,
                   !.figures = Append(@, [name |-> "gain_spectra-mode_comps",
                                          Total |-> iv]),
                   !.files = @ \cup
                       savetxt("gain_spectra-mode_comps-Total.csv", iv)]
    /\ UNCHANGED <<fields, history, kin, kout, looked>>

\* lines 143-176: the second pass adds to interp_values as the first pass
\* left it (no np.zeros in between) and plots the figure in dB
gain_figure_2 ==
    /\ gs.pc = "fig1"
    /\ \E iv \in {loop_if_All(gs.interp_values, "tot")} :
          gs' = [gs EXCEPT
                   !.pc = "fig2",
                   !.interp_values = iv,
                   !.figures = Append(@, [name |-> "gain_spectra-mode_comps-dB",
                                          Total |-> dB(iv)]),
                   !.files = @ \cup
                       savetxt("gain_spectra-mode_comps-dB-Total.csv", dB(iv))]
    /\ UNCHANGED <<fields, history, kin, kout, looked>>

\* lines 179-228: the three accumulators are set to np.zeros, the third
\* pass fills them, figure gain_spectra-MB_PE_comps and its files
gain_figure_3 ==
    /\ gs.pc = "fig2"
    /\ \E iv \in {loop_if_All(np_zeros, "tot")},
          iv_PE \in {loop_if_All(np_zeros, "PE")},
          iv_MB \in {loop_if_All(np_zeros, "MB")} :
          gs' = [gs EXCEPT
                   !.pc = "fig3",
                   !.interp_values = iv,
                   !.interp_values_PE = iv_PE,
                   !.interp_values_MB = iv_MB,
                   !.figures = Append(@, [name |-> "gain_spectra-MB_PE_comps",
                                          Total |-> iv, PE |-> iv_PE,
                                          MB |-> iv_MB]),
                   !.files = @ \cup
                       savetxt("gain_spectra-MB_PE_comps-Total.csv", iv) \cup
                       savetxt("gain_spectra-MB_PE_comps-PE.csv", iv_PE) \cup
                       savetxt("gain_spectra-MB_PE_comps-MB.csv", iv_MB)]
    /\ UNCHANGED <<fields, history, kin, kout, looked>>

\* lines 230-261: figure gain_spectra-MB_PE_comps-dB, its files, and
\* return interp_values
gain_figure_4 ==
    /\ gs.pc = "fig3"
    /\ gs' = [gs EXCEPT
                !.pc = "returned",
                !.figures = Append(@, [name |-> "gain_spectra-MB_PE_comps-dB",
                                       Total |-> dB(gs.interp_values),
                                       PE |-> dB(gs.interp_values_PE),
                                       MB |-> dB(gs.interp_values_MB)]),
                !.files = @ \cup
                    savetxt("gain_spectra-MB_PE_comps-dB-Total.csv",
                            dB(gs.interp_values)) \cup
                    savetxt("gain_spectra-MB_PE_comps-dB-PE.csv",
                            dB(gs.interp_values_PE)) \cup
                    savetxt("gain_spectra-MB_PE_comps-dB-MB.csv",
                            dB(gs.interp_values_MB)),
                !.ret = <<gs.interp_values>>]
    /\ UNCHANGED <<fields, history, kin, kout, looked>>

NextGain ==
    \/ gain_figure_1
    \/ gain_figure_2
    \/ gain_figure_3
    \/ gain_figure_4

SpecGain == InitGain /\ [][NextGain]_vars

\* ------------------------------------------------------------------
\* Properties
\* ------------------------------------------------------------------
Called == raised # "new"
Returned == raised = NoException
Field(k) == IF k = "c" THEN c ELSE IF k = "p" THEN p ELSE eta
KindIndex(k) == IF k = "c" THEN 1 ELSE IF k = "p" THEN 2 ELSE 3

\* the cubic expansion of the (11, 12, 44) values kind k had before the call
PreExpansion(k) == Cubic(old[k][1][1], old[k][1][2], old[k][4][4])
\* what rotate_tensor returned for kind k during the last call
KernelRotated(k) == kernel[KindIndex(k)].value[1]

Symmetric(M) == \A I \in 1 .. 6, J \in 1 .. 6 : M[I][J] = M[J][I]

\* C1: after a successful rotate_axis(theta, axis) on an isotropic
\* Material, every stored c_IJ, p_IJ, eta_IJ equals entry [I-1][J-1] of
\* rotate_tensor applied to the expansion of the pre-call (11, 12, 44)
\* values with that theta and axis.
C1_StoredIsKernelRotated ==
    Returned =>
        \A k \in Kinds :
            LET r == rotate_tensor(PreExpansion(k), call.theta, call.axis)
            IN  /\ r.raised = NoException
                /\ \A I \in 1 .. 6, J \in 1 .. 6 :
                       Field(k)[I][J] = At(r.value[1], I - 1, J - 1)

\* the sum of C2 written out: all 81 terms, each the five-fold product
C2_Sum(i, j, k, l, tensor, R) ==
    Norm(Sum3(LAMBDA q : Sum3(LAMBDA r : Sum3(LAMBDA ss : Sum3(LAMBDA t :
        RMul(At(R, i, q),
             RMul(At(R, j, r),
                  RMul(At(R, k, ss),
                       RMul(At(R, l, t),
                            At(tensor, At(to_Voigt, q, r),
                               At(to_Voigt, ss, t)))))))))))

\* C2: for every input tensor, every matrix R and every (i, j, k, l), the
\* matrix rotate_tensor returns holds at [to_Voigt[i,j], to_Voigt[k,l]] the
\* sum over q, r, s, t of R[i,q] R[j,r] R[k,s] R[l,t]
\* tensor[to_Voigt[q,r], to_Voigt[s,t]]; all 36 entries are written and all
\* quadruples of one Voigt pair give the same value.
C2_KernelEntryIsSum ==
    kout # <<>> =>
        /\ \A i \in Idx3, j \in Idx3, k \in Idx3, l \in Idx3 :
               At(kout[1], At(to_Voigt, i, j), At(to_Voigt, k, l))
                   = C2_Sum(i, j, k, l, kin.tensor, kin.mat_R[1])
        /\ \A V1 \in Idx6, V2 \in Idx6 :
               \E i \in Idx3, j \in Idx3, k \in Idx3, l \in Idx3 :
                   At(to_Voigt, i, j) = V1 /\ At(to_Voigt, k, l) = V2

C2_Witness ==
    /\ kout # <<>>
    /\ ~Symmetric(kin.tensor)
    /\ \A i \in 1 .. 3, j \in 1 .. 3 : ~IsZero(kin.mat_R[1][i][j])
    /\ \E I \in 1 .. 6, J \in 1 .. 6 : ~IsZero(kout[1][I][J])

\* C3: whenever rotate_axis ends in an error, every c_IJ, p_IJ, eta_IJ,
\* including which of them exist, is as before the call.
C3_NoPartialUpdate ==
    (Called /\ ~Returned) =>
        /\ c = old.c
        /\ p = old.p
        /\ eta = old.eta
        /\ attrs = old.attrs

InvalidAxisError == "InvalidAxisError"

\* C4: a rotation with an axis label outside x-axis, y-axis, z-axis fails
\* with an InvalidAxis error raised by the rotation-matrix step, and no
\* tensor entry is computed.
C4_InvalidAxisRaised ==
    \A m \in DOMAIN kernel :
        kernel[m].rotation_axis \notin ValidAxes =>
            /\ kernel[m].raised = InvalidAxisError
            /\ kernel[m].value = <<>>

\* C5: rotate_axis on a Material whose anisotropic flag is True raises
\* NotImplementedError for every theta and every axis label, valid or not,
\* and never calls the rotation kernel.
C5_AnisotropicRejected ==
    (Called /\ anisotropic = TRUE) =>
        /\ raised = NotImplementedError
        /\ kernel = <<>>

C5_Witness ==
    /\ anisotropic = TRUE
    /\ raised = NotImplementedError
    /\ call.axis = "z-axis"
    /\ call.theta = ThetaA

\* C6: a rotation by theta = 0 about any of the three axes returns the
\* expanded tensor unchanged: rotate_tensor(T, 0, axis) = T entry by entry,
\* and after rotate_axis(0, axis) every stored c_IJ, p_IJ, eta_IJ equals the
\* entry of the expansion of the pre-call (11, 12, 44) values.
C6_IdentityAtZero ==
    (Returned /\ call.theta = Theta0) =>
        \A k \in Kinds :
            /\ kernel[KindIndex(k)].tensor_orig = PreExpansion(k)
            /\ KernelRotated(k) = PreExpansion(k)
            /\ Field(k) = PreExpansion(k)

C6_Witness ==
    /\ Returned
    /\ call.theta = Theta0
    /\ call.axis = "y-axis"
    /\ old.c[1][1] # NAdd(old.c[1][2], NAdd(old.c[4][4], old.c[4][4]))
    /\ Len(kernel) = 3

\* C7: for every valid axis and every angle the tensor produced from a
\* cubic expansion is symmetric, result[I][J] = result[J][I]: the matrix
\* rotate_tensor returns, and the c, p, eta components stored by
\* rotate_axis.
C7_RotatedSymmetric ==
    Returned =>
        \A k \in Kinds :
            /\ Symmetric(KernelRotated(k))
            /\ Symmetric(Field(k))

C7_Witness ==
    /\ Returned
    /\ call.theta = ThetaA
    /\ call.axis = "x-axis"
    /\ ~IsZero(KernelRotated("c")[2][4])
    /\ ~IsZero(p[2][4])

\* 0.25*(a*(3+cos 4theta) + (b+2*d)*(1-cos 4theta))
C8_ClosedForm(a, b, d, theta) ==
    LET cos_4theta == np_cos(AngleSum(AngleSum(theta, theta),
                                AngleSum(theta, theta)))
    IN  NMul(Num(1, 0, 4),
             NAdd(NMul(a, NAdd(Int2Num(3), cos_4theta)),
                  NMul(NAdd(b, NAdd(d, d)), NSub(Int2Num(1), cos_4theta))))

\* C8: for a rotation about the z-axis by any angle of a cubic expansion
\* (c11, c12, c44), entry [0][0] of rotate_tensor equals
\* 0.25*(c11*(3+cos 4theta) + (c12+2*c44)*(1-cos 4theta)), the value the
\* source assigns to c_11 and c_22.
C8_KernelMatchesClosedForm ==
    (Returned /\ call.axis = "z-axis") =>
        /\ \A k \in Kinds :
               At(KernelRotated(k), 0, 0)
                   = C8_ClosedForm(old[k][1][1], old[k][1][2], old[k][4][4],
                                   call.theta)
        /\ At(KernelRotated("c"), 0, 0) = c[1][1]
        /\ c[2][2] = c[1][1]

C8_Witness ==
    /\ Returned
    /\ call.axis = "z-axis"
    /\ call.theta = ThetaA
    /\ c[1][1] # old.c[1][1]

\* C9: for c11 = 166e9, c12 = 64e9, c44 = 80e9, rotate_axis(pi/4, 'z-axis')
\* leaves c_11 = c_22 = 195e9, c_66 = 51e9 and c_16 = c_61 = 0, and the
\* kernel-rotated tensor has the same values at those positions.
C9_SiliconQuarterPi ==
    ( /\ Returned
      /\ call = [theta |-> PiOver4, axis |-> "z-axis"]
      /\ old.c[1][1] = Int2Num(166)
      /\ old.c[1][2] = Int2Num(64)
      /\ old.c[4][4] = Int2Num(80) ) =>
        /\ c[1][1] = Int2Num(195) /\ c[2][2] = Int2Num(195)
        /\ c[6][6] = Int2Num(51)
        /\ c[1][6] = Int2Num(0) /\ c[6][1] = Int2Num(0)
        /\ At(KernelRotated("c"), 0, 0) = Int2Num(195)
        /\ At(KernelRotated("c"), 1, 1) = Int2Num(195)
        /\ At(KernelRotated("c"), 5, 5) = Int2Num(51)
        /\ At(KernelRotated("c"), 0, 5) = Int2Num(0)
        /\ At(KernelRotated("c"), 5, 0) = Int2Num(0)

C9_Witness ==
    /\ Returned
    /\ call = [theta |-> PiOver4, axis |-> "z-axis"]
    /\ old.c[1][1] = Int2Num(166)
    /\ old.c[1][2] = Int2Num(64)
    /\ old.c[4][4] = Int2Num(80)
    /\ c[1][1] = Int2Num(195)

\* c11 + 2*c12 of the material before the call
C10_Before == NAdd(old.c[1][1], NAdd(old.c[1][2], old.c[1][2]))

\* C10: the sum c11 + 2*c12 computed from the rotated components (rotated
\* c_11 plus twice rotated c_12) equals c11 + 2*c12 of the unrotated
\* material, for every angle and each of the three axes.  Stated of the
\* tensor rotate_tensor returns.
C10_SumPreserved ==
    Returned =>
        NAdd(At(KernelRotated("c"), 0, 0),
             NAdd(At(KernelRotated("c"), 0, 1),
                  At(KernelRotated("c"), 0, 1))) = C10_Before

\* C10 as amended: rotated c_11 + c_12 + c_13 equals c11 + 2*c12 of the
\* unrotated material, for every angle and each of the three axes, in the
\* stored components and in the kernel-rotated tensor.
C10_RowSumPreserved ==
    Returned =>
        /\ NAdd(c[1][1], NAdd(c[1][2], c[1][3])) = C10_Before
        /\ NAdd(At(KernelRotated("c"), 0, 0),
                NAdd(At(KernelRotated("c"), 0, 1),
                     At(KernelRotated("c"), 0, 2))) = C10_Before

C10_Witness ==
    /\ Returned
    /\ call.theta = ThetaA
    /\ call.axis = "y-axis"
    /\ c[1][2] # c[1][3]
    /\ At(KernelRotated("c"), 0, 1) # At(KernelRotated("c"), 0, 2)

\* the parameter file the Material was constructed from
LoadedFrom == CHOOSE f \in DataFiles : f.file_name = file_name
\* the tensor of kind k as load_data_file left it
Loaded(k) == load_data_file(LoadedFrom)[k]

\* what the last call leaves in kind k when it is the first call made on
\* the freshly loaded Material
C11_Fresh(k) ==
    LET t == Loaded(k)
        r == rotate_tensor(Expand(t), call.theta, call.axis).value[1]
    IN  IF k = "c"
        THEN ManualRotated(r, t[1][1], t[1][2], t[4][4], call.theta)
        ELSE r

\* C11: the c, p and eta components that a successful rotate_axis(theta,
\* axis) leaves on a Material depend on the loaded (11, 12, 44) parameters
\* and on (theta, axis) only: they are the ones the same call leaves on
\* the freshly loaded Material, whatever calls were made before.
C11_IndependentOfHistory ==
    Returned => \A k \in Kinds : Field(k) = C11_Fresh(k)

\* the standard Voigt index of the pair (i, j)
C12_Standard(i, j) ==
    IF i = j THEN i ELSE 6 - i - j

\* C12: every lookup to_Voigt[i, j] with i, j in 0..2 gives the index of
\* the standard convention ((0,0)->0, (1,1)->1, (2,2)->2, (1,2),(2,1)->3,
\* (0,2),(2,0)->4, (0,1),(1,0)->5), the same index as to_Voigt[j, i], and
\* every index 0..5 is the image of some pair.
C12_VoigtStandard ==
    /\ looked # <<>> =>
          /\ looked[3] = C12_Standard(looked[1], looked[2])
          /\ looked[3] = At(to_Voigt, looked[2], looked[1])
          /\ looked[3] \in Idx6
    /\ \A V \in Idx6 : \E i \in Idx3, j \in Idx3 : At(to_Voigt, i, j) = V

C12_Witness == looked = <<1, 2, 3>>

\* the right-handed rotation matrix about a principal axis, by rows
C13_Matrix(axis, theta) ==
    LET co == np_cos(theta)
        si == np_sin(theta)
        ms == NNeg(si)
    IN  IF axis = "x-axis"
        THEN <<<<One, Zero, Zero>>, <<Zero, co, ms>>, <<Zero, si, co>>>>
        ELSE IF axis = "y-axis"
        THEN <<<<co, Zero, si>>, <<Zero, One, Zero>>, <<ms, Zero, co>>>>
        ELSE <<<<co, ms, Zero>>, <<si, co, Zero>>, <<Zero, Zero, One>>>>

\* R * transpose(R) is the identity
C13_Orthogonal(R) ==
    \A i \in Idx3, j \in Idx3 :
        NAdd(NAdd(NMul(At(R, i, 0), At(R, j, 0)),
                  NMul(At(R, i, 1), At(R, j, 1))),
             NMul(At(R, i, 2), At(R, j, 2)))
        = (IF i = j THEN One ELSE Zero)

\* C13: for each valid axis label and angle theta, the matrix mat_R that
\* rotate_tensor uses is the right-handed principal-axis matrix
\* (x: [[1,0,0],[0,cos,-sin],[0,sin,cos]], y: [[cos,0,sin],[0,1,0],
\* [-sin,0,cos]], z: [[cos,-sin,0],[sin,cos,0],[0,0,1]]), it is orthogonal,
\* and it is bound by the branch of that label alone: with any other label
\* and the same theta the matrix differs unless both are the identity.
C13_RightHandedMatrix ==
    (kout # <<>> /\ kin.rotation_axis \in ValidAxes) =>
        /\ kout[1].mat_R = Bound(C13_Matrix(kin.rotation_axis, kin.theta))
        /\ C13_Orthogonal(kout[1].mat_R[1])
        /\ \A other \in ValidAxes \ {kin.rotation_axis} :
              \/ kout[1].mat_R # Bound(C13_Matrix(other, kin.theta))
              \/ kin.theta = Theta0

C13_Witness ==
    /\ kout # <<>>
    /\ kin.rotation_axis = "y-axis"
    /\ kin.theta = ThetaA
    /\ At(kout[1].mat_R[1], 0, 2) = Num(0, 2, 3)
    /\ At(kout[1].mat_R[1], 2, 0) = Num(0, -2, 3)

\* entry [I-1][J-1] of the cubic expansion of a = k_11, b = k_12, d = k_44
C14_Entry(k, I, J) ==
    IF I = J /\ I <= 3 THEN old[k][1][1]
    ELSE IF I = J THEN old[k][4][4]
    ELSE IF I <= 3 /\ J <= 3 THEN old[k][1][2]
    ELSE Zero

\* C14: on every call of rotate_axis on an isotropic Material, the first or
\* a later one, the tensor handed to rotate_tensor for each kind has
\* [0,0]=[1,1]=[2,2]=a, [3,3]=[4,4]=[5,5]=d, the six off-diagonal entries
\* among indices 0,1,2 equal to b and the other 24 entries equal to 0,
\* where a, b, d are the k_11, k_12, k_44 the Material held when called.
C14_HandedCubicExpansion ==
    (Called /\ anisotropic = FALSE) =>
        \A m \in DOMAIN kernel :
            \A I \in 1 .. 6, J \in 1 .. 6 :
                kernel[m].tensor_orig[I][J] = C14_Entry(KindOrder[m], I, J)

\* a later call on a Material whose stored tensors were no longer cubic
C14_Witness ==
    /\ Returned
    /\ ncalls = 2
    /\ Len(kernel) = 3
    /\ ~IsZero(old.c[1][6])
    /\ old.p[1][1] # old.p[3][3]
    /\ IsZero(kernel[1].tensor_orig[1][6])
    /\ kernel[2].tensor_orig[3][3] = old.p[1][1]

\* the axis swap of a quarter turn about an axis: the two axes exchanged
\* and the one of them whose image changes sign (z: 0 and 1, sign on 0;
\* x: 1 and 2, sign on 1; y: 2 and 0, sign on 2)
C15_Swapped(axis) ==
    IF axis = "z-axis" THEN <<0, 1>>
    ELSE IF axis = "x-axis" THEN <<1, 2>>
    ELSE <<2, 0>>
C15_p(axis, i) ==
    IF i = C15_Swapped(axis)[1] THEN C15_Swapped(axis)[2]
    ELSE IF i = C15_Swapped(axis)[2] THEN C15_Swapped(axis)[1]
    ELSE i
C15_s(axis, i) == IF i = C15_Swapped(axis)[1] THEN -1 ELSE 1

\* C15: rotate_tensor at theta = pi/2 is the axis swap: for every input
\* tensor and every (i,j,k,l), result[to_Voigt[i,j], to_Voigt[k,l]] =
\* s(i)*s(j)*s(k)*s(l) * tensor[to_Voigt[p(i),p(j)], to_Voigt[p(k),p(l)]],
\* where about z p swaps 0 and 1 and s(0) = -1, about x p swaps 1 and 2
\* and s(1) = -1, about y p swaps 2 and 0 and s(2) = -1.
C15_QuarterTurnIsAxisSwap ==
    (kout # <<>> /\ kin.theta = PiOver2 /\ kin.rotation_axis \in ValidAxes) =>
        /\ kout[1].raised = NoException
        /\ \A i \in Idx3, j \in Idx3, k \in Idx3, l \in Idx3 :
              LET a == kin.rotation_axis
                  sg == C15_s(a, i) * C15_s(a, j) * C15_s(a, k) * C15_s(a, l)
              IN  At(kout[1].value[1], At(to_Voigt, i, j), At(to_Voigt, k, l))
                  = NMul(Int2Num(sg),
                         At(kin.tensor_orig,
                            At(to_Voigt, C15_p(a, i), C15_p(a, j)),
                            At(to_Voigt, C15_p(a, k), C15_p(a, l))))

\* a quarter turn about y of a tensor that is not symmetric, with an entry
\* whose sign changes: result[4][2] = - tensor[4][0]
C15_Witness ==
    /\ kout # <<>>
    /\ kin.theta = PiOver2
    /\ kin.rotation_axis = "y-axis"
    /\ kin.tensor_orig[1][2] # kin.tensor_orig[2][1]
    /\ At(kout[1].value[1], 4, 2) = NNeg(At(kin.tensor_orig, 4, 0))
    /\ ~IsZero(At(kout[1].value[1], 4, 2))

\* C17: a call of rotate_axis that raises nothing returns a Material
\* object carrying the rotated tensor values, never an empty result (None).
C17_ReturnsMaterial ==
    Returned => returned # PyNone

\* the file holds all 36 c_IJ, all 36 p_IJ and all 36 eta_IJ keys
C18_AllKeys == \A k \in Kinds : LoadedFrom.has[k] = Comp

\* C18: the Material is flagged anisotropic exactly when its parameter
\* file holds all 36 c_IJ, 36 p_IJ and 36 eta_IJ keys; with any key missing
\* the flag is False and rotate_axis accepts the Material, and it rejects
\* (NotImplementedError) the fully specified ones only.
C18_FlagIffAllKeys ==
    /\ anisotropic = C18_AllKeys
    /\ Called => ((raised = NotImplementedError) <=> C18_AllKeys)

\* a file with 107 of the 108 keys: flagged False, rotated
C18_Witness ==
    /\ file_name = "Si_no_eta_66"
    /\ LoadedFrom.has["c"] = Comp
    /\ LoadedFrom.has["p"] = Comp
    /\ LoadedFrom.has["eta"] = Comp \ {<<6, 6>>}
    /\ anisotropic = FALSE
    /\ Returned
    /\ <<6, 6>> \notin old.attrs["eta"]
    /\ <<6, 5>> \in old.attrs["eta"]

\* the 16 positions that lines 238-245 assign
C19_Assigned ==
    {<<1, 1>>, <<2, 2>>, <<3, 3>>, <<1, 2>>, <<2, 1>>, <<1, 3>>, <<2, 3>>,
     <<3, 1>>, <<3, 2>>, <<4, 4>>, <<5, 5>>, <<6, 6>>, <<1, 6>>, <<6, 1>>,
     <<2, 6>>, <<6, 2>>}

\* C19: after a successful rotation about the z-axis, each closed-form
\* value assigned by lines 238-245 (c_11=c_22, c_33, c_12=c_21,
\* c_13=c_23=c_31=c_32, c_44=c_55, c_66, c_16=c_61, c_26=c_62) equals the
\* entry of the kernel-rotated tensor at the same position, the sign of
\* c_16 and c_26 included.
C19_ClosedFormIsKernelEntry ==
    (Returned /\ call.axis = "z-axis") =>
        \A q \in C19_Assigned :
            ManualRotated(KernelRotated("c"), old.c[1][1], old.c[1][2],
                          old.c[4][4], call.theta)[q[1]][q[2]]
            = At(KernelRotated("c"), q[1] - 1, q[2] - 1)

\* the components the expansion sets to 0, c_16, c_61, c_26, c_62 apart
C20_StayZero ==
    {q \in Comp : /\ q[1] # q[2]
                  /\ (q[1] > 3 \/ q[2] > 3)
                  /\ q \notin {<<1, 6>>, <<6, 1>>, <<2, 6>>, <<6, 2>>}}

RECURSIVE C21_SumTo(_, _)
C21_SumTo(k, x) ==
    IF k = 0 THEN 0 ELSE C21_SumTo(k - 1, x) + gs.modes[k].tot[x]
C21_Sum == [x \in 1 .. num_interp_pts |-> C21_SumTo(Len(gs.modes), x)]
C21_dBNames ==
    {"gain_spectra-mode_comps-dB", "gain_spectra-MB_PE_comps-dB",
     "gain_spectra-mode_comps-dB-Total.csv",
     "gain_spectra-MB_PE_comps-dB-Total.csv"}
C21_TotalFiles ==
    {"gain_spectra-mode_comps-Total.csv",
     "gain_spectra-mode_comps-dB-Total.csv",
     "gain_spectra-MB_PE_comps-Total.csv",
     "gain_spectra-MB_PE_comps-dB-Total.csv"}
\* the Total curve a figure or file of that name is to show
C21_Expected(name) ==
    IF name \in C21_dBNames THEN dB(C21_Sum) ELSE C21_Sum

\* C21: in gain_specta with AC_ival = 'All', the Total curve of every
\* figure and CSV file (in dB where the figure is in dB) and the returned
\* interp_values equal the sum over all acoustic modes of the mode's
\* interpolated Lorentzian gain, each mode counted exactly once.
C21_TotalIsSumOfModes ==
    (gs.pc # "none" /\ gs.AC_ival = "All") =>
        /\ \A f \in 1 .. Len(gs.figures) :
              gs.figures[f].Total = C21_Expected(gs.figures[f].name)
        /\ \A file \in gs.files :
              file.name \in C21_TotalFiles =>
                  file.data = C21_Expected(file.name)
        /\ gs.ret # <<>> => gs.ret[1] = C21_Sum

\* C22: on an isotropic Material, rotate_axis(theta, axis) followed by
\* rotate_axis(-theta, axis) leaves every c, p and eta component equal to
\* the isotropic expansion of the loaded (11, 12, 44) values, which is
\* also what the one rotation by theta + (-theta) = 0 leaves.
C22_RoundTrip ==
    (ncalls = 2 /\ Returned) =>
        \A k \in Kinds : Field(k) = Expand(Loaded(k))

\* T is the cubic-symmetry expansion of its own (11, 12, 44) entries
C23_IsCubic(T) == T = Cubic(T[1][1], T[1][2], T[4][4])

\* C23: for a cubic-symmetry expansion, every axis and every angle theta,
\* rotate_tensor gives the same 6x6 result for theta and for theta + pi/2,
\* and so do the closed forms of lines 238-245; a rotation by pi/2 returns
\* the expanded tensor unchanged.
C23_FourfoldSymmetry ==
    (/\ kout # <<>>
     /\ kin.rotation_axis \in ValidAxes
     /\ C23_IsCubic(kin.tensor_orig)) =>
        LET T == kin.tensor_orig
            turned == AngleSum(kin.theta, PiOver2)
        IN  /\ kout[1].value
                  = rotate_tensor(T, turned, kin.rotation_axis).value
            /\ ManualRotated(T, T[1][1], T[1][2], T[4][4], kin.theta)
                  = ManualRotated(T, T[1][1], T[1][2], T[4][4], turned)
            /\ kin.theta = PiOver2 => kout[1].value[1] = T

\* a rotation of the silicon stiffness that is not the identity
C23_Witness ==
    /\ kout # <<>>
    /\ kin.rotation_axis = "x-axis"
    /\ kin.theta = ThetaA
    /\ kin.tensor_orig = Cubic(Int2Num(166), Int2Num(64), Int2Num(80))
    /\ kout[1].value[1] # kin.tensor_orig
    /\ ~IsZero(kout[1].value[1][2][4])

\* C24: for the expansion of a parameter set returned by
\* isotropic_stiffness(E, v) (c44 = (c11 - c12)/2), rotation by any angle
\* about any of the three axes leaves the 6x6 tensor unchanged, in the
\* result of rotate_tensor and after the closed forms of lines 238-245
\* are assigned into it.
C24_IsotropicUnchanged ==
    (/\ kout # <<>>
     /\ kin.rotation_axis \in ValidAxes
     /\ kin.tensor_orig \in IsotropicInputs) =>
        LET T == kin.tensor_orig
        IN  /\ kout[1].raised = NoException
            /\ kout[1].value[1] = T
            /\ ManualRotated(kout[1].value[1], T[1][1], T[1][2], T[4][4],
                              kin.theta) = T

\* E = 73 GPa, v = 1/4 (c = 438/5, 146/5, 146/5) turned by acos(1/3) about y
C24_Witness ==
    /\ kout # <<>>
    /\ kin.rotation_axis = "y-axis"
    /\ kin.theta = ThetaA
    /\ kin.tensor_orig = Cubic(Num(438, 0, 5), Num(146, 0, 5), Num(146, 0, 5))
    /\ kin.tensor_orig \in IsotropicInputs
    /\ kout[1].value[1] = kin.tensor_orig

\* n, s, the metadata and the flag are as load_data_file set them, and a
\* Material loaded as isotropic has not been rejected
C25_AsLoaded ==
    /\ file_name = LoadedFrom.file_name
    /\ n = LoadedFrom.n
    /\ s = LoadedFrom.s
    /\ anisotropic = load_data_file(LoadedFrom).anisotropic
    /\ (Called /\ load_data_file(LoadedFrom).anisotropic = FALSE) =>
           raised # NotImplementedError

\* C25: rotate_axis changes c_IJ, p_IJ and eta_IJ attributes only: every
\* call leaves n, s, the metadata and the flag anisotropic as they were,
\* so after any number of calls they are as load_data_file set them, the
\* flag of a Material loaded as isotropic is still False and no later
\* call raises NotImplementedError, also when its stored tensors are no
\* longer a cubic expansion.
C25_FrameOfRotateAxis ==
    /\ []C25_AsLoaded
    /\ [][ncalls' # ncalls =>
            /\ file_name' = file_name
            /\ n' = n
            /\ s' = s
            /\ anisotropic' = anisotropic]_vars

\* a second call accepted on a Material whose stored stiffness is no
\* longer a cubic expansion
C25_Witness ==
    /\ ncalls = 2
    /\ Returned
    /\ anisotropic = FALSE
    /\ old.c # Expand(old.c)
    /\ ~IsZero(old.c[1][6])
    /\ n = LoadedFrom.n

\* entry [I][0] + [I][1] + [I][2] of a 6x6 array (I 0-based)
C26_RowSum(M, I) == NAdd(At(M, I, 0), NAdd(At(M, I, 1), At(M, I, 2)))

\* C26: for a cubic-symmetry expansion with parameters (a, b, d), every
\* axis and every angle, each of the first three rows of the tensor that
\* rotate_tensor returns keeps its sum over the first three columns:
\* result[I][0] + result[I][1] + result[I][2] = a + 2*b for I in 0..2;
\* about z the closed forms of lines 238-241 keep it too.
C26_RowSumsKept ==
    (/\ kout # <<>>
     /\ kin.rotation_axis \in ValidAxes
     /\ C23_IsCubic(kin.tensor_orig)) =>
        LET T == kin.tensor_orig
            a_2b == NAdd(T[1][1], NAdd(T[1][2], T[1][2]))
        IN  /\ \A I \in Idx3 : C26_RowSum(kout[1].value[1], I) = a_2b
            /\ kin.rotation_axis = "z-axis" =>
                  \A I \in Idx3 :
                      C26_RowSum(ManualRotated(kout[1].value[1], T[1][1],
                                               T[1][2], T[4][4], kin.theta),
                                 I) = a_2b

\* silicon turned by acos(1/3) about y: the entries of row 0 change, their
\* sum 166 + 2*64 = 294 does not
C26_Witness ==
    /\ kout # <<>>
    /\ kin.rotation_axis = "y-axis"
    /\ kin.theta = ThetaA
    /\ kin.tensor_orig = Cubic(Int2Num(166), Int2Num(64), Int2Num(80))
    /\ At(kout[1].value[1], 0, 0) # Int2Num(166)
    /\ At(kout[1].value[1], 0, 1) # At(kout[1].value[1], 0, 2)
    /\ C26_RowSum(kout[1].value[1], 0) = Int2Num(294)

====
